---- MODULE Spec2Model ----
(***************************************************************************)
(* Local speaker diarization (src/common/audio/diarization.py) and the     *)
(* local Whisper adapter (src/common/services/transcription_services/      *)
(* whisper_local.py).                                                      *)
(*                                                                         *)
(* Units.  Times are Python floats in seconds; here they are integers in   *)
(* ticks of 1/TicksPerSec s (0.05 s), so 0.5 s = 10 ticks and 10.3 s = 206 *)
(* ticks.  The sample rate is scaled from 16000 Hz to 4 Hz so that one hop *)
(* is 3 samples and one window 6 samples; window, hop and gap tolerance    *)
(* keep their values in seconds.  Amplitudes are in thousandths, so the    *)
(* silence threshold 0.01 is 10; silhouette scores are in tenths, so the   *)
(* initial best score -1 is -10.                                           *)
(***************************************************************************)
EXTENDS Integers, Sequences, FiniteSets, TLC

VARIABLES
    pc,                \* position of the job: which step runs next
    dialogue_entries,  \* WhisperLocalAdapter.start: the transcript it returns
    num_speakers,      \* perform_diarization argument, reassigned at line 123
    arg_num_speakers,  \* the argument as passed by the caller
    min_speakers,
    max_speakers,
    wav,               \* waveform after librosa.load / preprocess_wav
    start_sample,      \* loop variable of the windowing loop
    segments,          \* retained frames {start, end}
    embeddings,        \* one embedding per retained frame
    est,               \* locals of _estimate_num_speakers
    labels,            \* labels of the final clustering
    speaker_segments,  \* one SpeakerSegment per frame, before merging
    result,            \* return value of perform_diarization
    err,               \* exception that left perform_diarization, or "none"
    calls,             \* history of capability invocations
    delivered,         \* transcript handed on by the caller
    t_pc,              \* position of the function harness
    t_segments,        \* harness: speaker-segment argument
    t_gap,             \* harness: gap_tolerance argument
    t_transcript,      \* harness: transcript argument
    t_out,             \* harness: first return value
    t_out2             \* harness: return value of the second application

pipeVars == <<pc, dialogue_entries, num_speakers, arg_num_speakers, min_speakers,
              max_speakers, wav, start_sample, segments, embeddings, est, labels,
              speaker_segments, result, err, calls, delivered>>
fnVars == <<t_pc, t_segments, t_gap, t_transcript, t_out, t_out2>>
vars == <<pipeVars, fnVars>>

---------------------------------------------------------------------------
(* Bounds of the model *)
MaxLen == 16          \* longest waveform, in samples
MaxSpk == 3           \* largest speaker count a caller passes
MaxT == 2             \* function inputs: times 0..MaxT quarter seconds
MaxSegs == 3          \* longest segment list given to the merge
MaxAlignSegs == 2     \* longest segment list given to the alignment
MaxUtts == 2          \* longest transcript given to the alignment

(* Program constants *)
sr == 4
TicksPerSec == 5 * sr
window_size == (3 * TicksPerSec) \div 2
hop_size == (3 * TicksPerSec) \div 4
\* line 209 with a tolerance of 1.0 s
DefaultGapToleranceOneSecond == TicksPerSec

DefaultGapTolerance == TicksPerSec \div 2
SilenceThreshold == 10
None == -1
DefaultMinSpeakers == 2
DefaultMaxSpeakers == 10
InitialBestScore == -10

Min(a, b) == IF a < b THEN a ELSE b
Max(a, b) == IF a > b THEN a ELSE b
Abs(x) == IF x < 0 THEN 0 - x ELSE x

---------------------------------------------------------------------------
(* SpeakerSegment and label formatting *)

SpeakerSegment(s, e, spk) == [start |-> s, end |-> e, speaker |-> spk]

\* f"{label:02d}"
Format02d(n) == IF n < 10 THEN "0" \o ToString(n) ELSE ToString(n)

\* f"SPEAKER_{label:02d}"
\* line 147 without the :02d padding
SpeakerLabelUnpadded(label) == "SPEAKER_" \o ToString(label)

SpeakerLabel(label) == "SPEAKER_" \o Format02d(label)

---------------------------------------------------------------------------
(* _merge_consecutive_segments *)

\* the test of lines 229-232 with a strict comparison
ShouldMergeStrict(current, next_seg, gap_tolerance) ==
    /\ next_seg.speaker = current.speaker
    /\ next_seg.start - current.end < gap_tolerance

\* the test of lines 229-232
ShouldMerge(current, next_seg, gap_tolerance) ==
    /\ next_seg.speaker = current.speaker
    /\ next_seg.start - current.end <= gap_tolerance

\* the loop of lines 227-241, from index i on; returns the locals at loop exit
RECURSIVE MergeLoop(_, _, _, _, _)
MergeLoop(segs, i, current, merged, gap_tolerance) ==
    IF i > Len(segs)
    THEN [merged |-> merged, current |-> current]
    ELSE LET next_seg == segs[i] IN
         IF ShouldMerge(current, next_seg, gap_tolerance)
         THEN MergeLoop(segs, i + 1,
                        SpeakerSegment(current.start, next_seg.end, current.speaker),
                        merged, gap_tolerance)
         ELSE MergeLoop(segs, i + 1, next_seg, Append(merged, current), gap_tolerance)

\* lines 221-244 without the append of line 243
merge_without_last_append(segs, gap_tolerance) ==
    IF segs = <<>>
    THEN <<>>
    ELSE MergeLoop(segs, 2, segs[1], <<>>, gap_tolerance).merged

merge_consecutive_segments(segs, gap_tolerance) ==
    IF segs = <<>>
    THEN <<>>
    ELSE LET r == MergeLoop(segs, 2, segs[1], <<>>, gap_tolerance)
         IN  Append(r.merged, r.current)

---------------------------------------------------------------------------
(* assign_speakers_to_transcript *)

\* dict.get(key, default)
Get(d, key, default) == IF key \in DOMAIN d THEN d[key] ELSE default

\* line 275 with min and max exchanged
OverlapSwapped(start, end, speaker_seg) ==
    Max(end, speaker_seg.end) - Min(start, speaker_seg.start)

\* line 275
Overlap(start, end, speaker_seg) ==
    Min(end, speaker_seg.end) - Max(start, speaker_seg.start)

\* line 276 with >= in place of >
IsBetterOrEqual(overlap, max_overlap) == overlap >= max_overlap

\* line 276
IsBetter(overlap, max_overlap) == overlap > max_overlap

\* the inner loop of lines 274-278, from index j on
RECURSIVE BestLoop(_, _, _, _, _, _)
BestLoop(start, end, ssegs, j, best_speaker, max_overlap) ==
    IF j > Len(ssegs)
    THEN best_speaker
    ELSE LET overlap == Overlap(start, end, ssegs[j]) IN
         IF IsBetter(overlap, max_overlap)
         THEN BestLoop(start, end, ssegs, j + 1, ssegs[j].speaker, overlap)
         ELSE BestLoop(start, end, ssegs, j + 1, best_speaker, max_overlap)

\* lines 267-278 for one transcript segment
BestSpeaker(seg, ssegs) ==
    BestLoop(Get(seg, "start_time", 0), Get(seg, "end_time", 0), ssegs, 1,
             "SPEAKER_00", 0)

\* lines 281-284 rebuilding the record from the known fields only
WithSpeakerKnownFields(seg, best_speaker) ==
    [k \in (DOMAIN seg \cap {"text", "start_time", "end_time"}) \cup {"speaker"} |->
        IF k = "speaker" THEN best_speaker ELSE seg[k]]

\* lines 281-284 with the two parts of the dict in the other order
WithSpeakerKeepExisting(seg, best_speaker) ==
    [k \in DOMAIN seg \cup {"speaker"} |->
        IF k \in DOMAIN seg THEN seg[k] ELSE best_speaker]

\* {**seg, "speaker": best_speaker}
WithSpeaker(seg, best_speaker) ==
    [k \in DOMAIN seg \cup {"speaker"} |->
        IF k = "speaker" THEN best_speaker ELSE seg[k]]

assign_speakers_to_transcript(transcript_segments, ssegs) ==
    [i \in 1..Len(transcript_segments) |->
        WithSpeaker(transcript_segments[i], BestSpeaker(transcript_segments[i], ssegs))]

---------------------------------------------------------------------------
(* WhisperLocalAdapter.start *)

\* what model.transcribe yields: segments with text, start and end
WhisperSegments ==
    << [text |-> <<" ", "a">>, start |-> 0, end |-> 30],
       [text |-> <<" ", "b", " ">>, start |-> 30, end |-> 45] >>

WhisperOutputs == {SubSeq(WhisperSegments, 1, n) : n \in {0, Len(WhisperSegments)}}

\* str.strip()
RECURSIVE LStrip(_)
LStrip(text) ==
    IF text # <<>> /\ Head(text) = " " THEN LStrip(Tail(text)) ELSE text

RECURSIVE RStrip(_)
RStrip(text) ==
    IF text # <<>> /\ text[Len(text)] = " "
    THEN RStrip(SubSeq(text, 1, Len(text) - 1))
    ELSE text

Strip(text) == RStrip(LStrip(text))

\* lines 146-151
DialogueEntry(segment) ==
    [speaker |-> "Speaker 1",
     text |-> Strip(segment.text),
     start_time |-> segment.start,
     end_time |-> segment.end]

\* lines 140-186: the transcript the adapter returns
WhisperStart ==
    /\ pc = "transcribe"
    /\ \E out \in WhisperOutputs :
           dialogue_entries' = [i \in 1..Len(out) |-> DialogueEntry(out[i])]
    /\ pc' = "transcribed"
    /\ UNCHANGED <<num_speakers, arg_num_speakers, min_speakers, max_speakers, wav,
                   start_sample, segments, embeddings, est, labels,
                   speaker_segments, result, err, calls, delivered>>
    /\ UNCHANGED fnVars

---------------------------------------------------------------------------
(* perform_diarization *)

window_samples == (window_size * sr) \div TicksPerSec
hop_samples == (hop_size * sr) \div TicksPerSec

\* sample index / sr, in ticks
TimeOf(sample) == (sample * TicksPerSec) \div sr

Amps == {9, -10}

NumBlocks(len) == (len + hop_samples - 1) \div hop_samples

\* waveforms of up to MaxLen samples, constant over each hop
Waveforms ==
    UNION { { [i \in 1..len |-> f[((i - 1) \div hop_samples) + 1]] :
                f \in [1..NumBlocks(len) -> Amps] } : len \in 0..MaxLen }

MaxOf(S) == CHOOSE x \in S : \A y \in S : y <= x

\* np.abs(wav[start:end]).max()
Peak(w, start, end) == MaxOf({Abs(w[i]) : i \in (start + 1)..end})

\* line 98
IsSilent(peak) == peak < SilenceThreshold

\* range(0, len(wav) - window_samples, hop_samples) has a value at start
InRange(start, w) == start < Len(w) - window_samples

\* line 114 with the bound off by one
TooFewBelowOne(n) == n < 1

\* line 114
TooFew(n) == n < 2

\* line 121 ignoring the supplied count
AutoDetectAlways(n) == TRUE

\* line 121
AutoDetect(n) == n = None

NoEst == [best_score |-> 0, best_n |-> 0, max_speakers |-> 0, n_clusters |-> 0]

Record(call) == calls' = Append(calls, call)

\* (num_speakers, min_speakers, max_speakers) of a call: no count and a range
\* (any lower end; the upper end 1 or MaxSpk, which line 183 lowers to n - 1),
\* or a count and the default range, or all defaults
DiarizeArgs ==
    ({None} \X (1..MaxSpk) \X {1, MaxSpk})
        \cup ((1..MaxSpk) \X {DefaultMinSpeakers} \X {DefaultMaxSpeakers})
        \cup {<<None, DefaultMinSpeakers, DefaultMaxSpeakers>>}

\* the caller invokes perform_diarization with its arguments
CallerDiarize ==
    /\ pc = "transcribed"
    /\ \E args \in DiarizeArgs :
           /\ arg_num_speakers' = args[1]
           /\ num_speakers' = args[1]
           /\ min_speakers' = args[2]
           /\ max_speakers' = args[3]
    /\ pc' = "import"
    /\ UNCHANGED <<dialogue_entries, wav, start_sample, segments, embeddings, est,
                   labels, speaker_segments, result, err, calls, delivered>>
    /\ UNCHANGED fnVars

\* lines 58-61: the imports succeed
ImportOk ==
    /\ pc = "import"
    /\ pc' = "load"
    /\ UNCHANGED <<dialogue_entries, num_speakers, arg_num_speakers, min_speakers,
                   max_speakers, wav, start_sample, segments, embeddings, est,
                   labels, speaker_segments, result, err, calls, delivered>>
    /\ UNCHANGED fnVars

\* the imports made at first use, inside the window loop, instead of lines 58-61
ImportFailAtFirstUse ==
    /\ pc = "window"
    /\ start_sample = 0
    /\ pc' = "raised"
    /\ err' = "ImportError"
    /\ UNCHANGED <<dialogue_entries, num_speakers, arg_num_speakers, min_speakers,
                   max_speakers, wav, start_sample, segments, embeddings, est,
                   labels, speaker_segments, result, calls, delivered>>
    /\ UNCHANGED fnVars

\* lines 62-69: an import fails
ImportFail ==
    /\ pc = "import"
    /\ pc' = "raised"
    /\ err' = "ImportError"
    /\ UNCHANGED <<dialogue_entries, num_speakers, arg_num_speakers, min_speakers,
                   max_speakers, wav, start_sample, segments, embeddings, est,
                   labels, speaker_segments, result, calls, delivered>>
    /\ UNCHANGED fnVars

\* lines 75-91
LoadAudio ==
    /\ pc = "load"
    /\ \E w \in Waveforms : wav' = w
    /\ start_sample' = 0
    /\ segments' = <<>>
    /\ embeddings' = <<>>
    /\ Record([op |-> "load"])
    /\ pc' = "window"
    /\ UNCHANGED <<dialogue_entries, num_speakers, arg_num_speakers, min_speakers,
                   max_speakers, est, labels, speaker_segments, result, err,
                   delivered>>
    /\ UNCHANGED fnVars

\* lines 93-99: a silent window is skipped
WindowSilent ==
    /\ pc = "window"
    /\ InRange(start_sample, wav)
    /\ IsSilent(Peak(wav, start_sample, start_sample + window_samples))
    /\ start_sample' = start_sample + hop_samples
    /\ Record([op |-> "window", start |-> start_sample, kept |-> FALSE])
    /\ UNCHANGED <<pc, dialogue_entries, num_speakers, arg_num_speakers,
                   min_speakers, max_speakers, wav, segments, embeddings, est,
                   labels, speaker_segments, result, err, delivered>>
    /\ UNCHANGED fnVars

\* lines 93-112: a window is embedded and kept
WindowEmbed ==
    /\ pc = "window"
    /\ InRange(start_sample, wav)
    /\ ~IsSilent(Peak(wav, start_sample, start_sample + window_samples))
    /\ LET end_sample == start_sample + window_samples IN
         /\ embeddings' = Append(embeddings, [frame |-> start_sample])
         /\ segments' = Append(segments, [start |-> TimeOf(start_sample),
                                          end |-> TimeOf(end_sample)])
    /\ start_sample' = start_sample + hop_samples
    /\ Record([op |-> "embed", start |-> start_sample, ok |-> TRUE])
    /\ UNCHANGED <<pc, dialogue_entries, num_speakers, arg_num_speakers,
                   min_speakers, max_speakers, wav, est, labels, speaker_segments,
                   result, err, delivered>>
    /\ UNCHANGED fnVars

\* line 102 raises and the window is skipped like a silent one
WindowEmbedFailSkips ==
    /\ pc = "window"
    /\ InRange(start_sample, wav)
    /\ ~IsSilent(Peak(wav, start_sample, start_sample + window_samples))
    /\ Record([op |-> "embed", start |-> start_sample, ok |-> FALSE])
    /\ start_sample' = start_sample + hop_samples
    /\ UNCHANGED <<pc, dialogue_entries, num_speakers, arg_num_speakers,
                   min_speakers, max_speakers, wav, segments, embeddings, est,
                   labels, speaker_segments, result, err, delivered>>
    /\ UNCHANGED fnVars

\* line 102 raises
WindowEmbedFail ==
    /\ pc = "window"
    /\ InRange(start_sample, wav)
    /\ ~IsSilent(Peak(wav, start_sample, start_sample + window_samples))
    /\ Record([op |-> "embed", start |-> start_sample, ok |-> FALSE])
    /\ err' = "EmbedError"
    /\ pc' = "raised"
    /\ UNCHANGED <<dialogue_entries, num_speakers, arg_num_speakers, min_speakers,
                   max_speakers, wav, start_sample, segments, embeddings, est,
                   labels, speaker_segments, result, delivered>>
    /\ UNCHANGED fnVars

\* lines 114-116: the loop is over and fewer than 2 frames were kept
TooFewFrames ==
    /\ pc = "window"
    /\ ~InRange(start_sample, wav)
    /\ TooFew(Len(embeddings))
    /\ result' = <<SpeakerSegment(0, TimeOf(Len(wav)), "SPEAKER_00")>>
    /\ pc' = "done"
    /\ UNCHANGED <<dialogue_entries, num_speakers, arg_num_speakers, min_speakers,
                   max_speakers, wav, start_sample, segments, embeddings, est,
                   labels, speaker_segments, err, calls, delivered>>
    /\ UNCHANGED fnVars

\* lines 121-127 and 177-181 without the clamp to len(embeddings) - 1 of line 183
EstimateStartNoClamp ==
    /\ pc = "window"
    /\ ~InRange(start_sample, wav)
    /\ ~TooFew(Len(embeddings))
    /\ AutoDetect(num_speakers)
    /\ est' = [best_score |-> InitialBestScore,
               best_n |-> min_speakers,
               max_speakers |-> Min(max_speakers, Len(embeddings)),
               n_clusters |-> min_speakers]
    /\ Record([op |-> "estimate"])
    /\ pc' = "estimate"
    /\ UNCHANGED <<dialogue_entries, num_speakers, arg_num_speakers, min_speakers,
                   max_speakers, wav, start_sample, segments, embeddings, labels,
                   speaker_segments, result, err, delivered>>
    /\ UNCHANGED fnVars

\* lines 121-127 and 177-183: the estimator is entered
EstimateStart ==
    /\ pc = "window"
    /\ ~InRange(start_sample, wav)
    /\ ~TooFew(Len(embeddings))
    /\ AutoDetect(num_speakers)
    /\ est' = [best_score |-> InitialBestScore,
               best_n |-> min_speakers,
               max_speakers |-> Min(Min(max_speakers, Len(embeddings)),
                                    Len(embeddings) - 1),
               n_clusters |-> min_speakers]
    /\ Record([op |-> "estimate"])
    /\ pc' = "estimate"
    /\ UNCHANGED <<dialogue_entries, num_speakers, arg_num_speakers, min_speakers,
                   max_speakers, wav, start_sample, segments, embeddings, labels,
                   speaker_segments, result, err, delivered>>
    /\ UNCHANGED fnVars

\* line 121 reached as soon as two embeddings exist, windows still pending
UseDeclaredEarly ==
    /\ pc = "window"
    /\ ~TooFew(Len(embeddings))
    /\ ~AutoDetect(num_speakers)
    /\ pc' = "cluster"
    /\ UNCHANGED <<dialogue_entries, num_speakers, arg_num_speakers, min_speakers,
                   max_speakers, wav, start_sample, segments, embeddings, est,
                   labels, speaker_segments, result, err, calls, delivered>>
    /\ UNCHANGED fnVars

\* line 121: the count was supplied
UseDeclared ==
    /\ pc = "window"
    /\ ~InRange(start_sample, wav)
    /\ ~TooFew(Len(embeddings))
    /\ ~AutoDetect(num_speakers)
    /\ pc' = "cluster"
    /\ UNCHANGED <<dialogue_entries, num_speakers, arg_num_speakers, min_speakers,
                   max_speakers, wav, start_sample, segments, embeddings, est,
                   labels, speaker_segments, result, err, calls, delivered>>
    /\ UNCHANGED fnVars

---------------------------------------------------------------------------
(* _estimate_num_speakers *)

\* silhouette scores a trial can yield, in tenths; a silhouette mean is above -1
Scores == {-3, 6}

\* line 196 with >=
ScoreBetterOrEqual(score, best_score) == score >= best_score

\* line 196
ScoreBetter(score, best_score) == score > best_score

\* lines 185-198: clustering and scoring of candidate n_clusters succeed
EstTrialOk ==
    /\ pc = "estimate"
    /\ est.n_clusters <= est.max_speakers
    /\ \E score \in Scores :
         LET better == ScoreBetter(score, est.best_score) IN
           /\ est' = [est EXCEPT
                        !.best_score = IF better THEN score ELSE @,
                        !.best_n = IF better THEN est.n_clusters ELSE @,
                        !.n_clusters = @ + 1]
           /\ Record([op |-> "trial", k |-> est.n_clusters, ok |-> TRUE,
                      score |-> score])
    /\ UNCHANGED <<pc, dialogue_entries, num_speakers, arg_num_speakers,
                   min_speakers, max_speakers, wav, start_sample, segments,
                   embeddings, labels, speaker_segments, result, err, delivered>>
    /\ UNCHANGED fnVars

\* lines 186-201 without the try: the failure of a trial leaves the estimator
EstTrialFailPropagates ==
    /\ pc = "estimate"
    /\ est.n_clusters <= est.max_speakers
    /\ Record([op |-> "trial", k |-> est.n_clusters, ok |-> FALSE, score |-> 0])
    /\ err' = "ClusterError"
    /\ pc' = "raised"
    /\ UNCHANGED <<dialogue_entries, num_speakers, arg_num_speakers, min_speakers,
                   max_speakers, wav, start_sample, segments, embeddings, est,
                   labels, speaker_segments, result, delivered>>
    /\ UNCHANGED fnVars

\* lines 199-201: clustering or scoring of candidate n_clusters raises
EstTrialFail ==
    /\ pc = "estimate"
    /\ est.n_clusters <= est.max_speakers
    /\ est' = [est EXCEPT !.n_clusters = @ + 1]
    /\ Record([op |-> "trial", k |-> est.n_clusters, ok |-> FALSE, score |-> 0])
    /\ UNCHANGED <<pc, dialogue_entries, num_speakers, arg_num_speakers,
                   min_speakers, max_speakers, wav, start_sample, segments,
                   embeddings, labels, speaker_segments, result, err, delivered>>
    /\ UNCHANGED fnVars

\* lines 203-204 and 123: the estimate becomes num_speakers
EstReturn ==
    /\ pc = "estimate"
    /\ est.n_clusters > est.max_speakers
    /\ num_speakers' = est.best_n
    /\ pc' = "cluster"
    /\ UNCHANGED <<dialogue_entries, arg_num_speakers, min_speakers, max_speakers,
                   wav, start_sample, segments, embeddings, est, labels,
                   speaker_segments, result, err, calls, delivered>>
    /\ UNCHANGED fnVars

---------------------------------------------------------------------------
(* perform_diarization, continued *)

\* lines 141-149
BuildSegments(frames, labs) ==
    [i \in 1..Len(frames) |->
        SpeakerSegment(frames[i].start, frames[i].end, SpeakerLabel(labs[i]))]

\* lines 132-158: the final clustering succeeds; segments are built and merged
ClusterOk ==
    /\ pc = "cluster"
    /\ \E labs \in [1..Len(embeddings) -> 0..(num_speakers - 1)] :
         /\ labels' = labs
         /\ speaker_segments' = BuildSegments(segments, labs)
         /\ result' = merge_consecutive_segments(BuildSegments(segments, labs),
                                                 DefaultGapTolerance)
    /\ Record([op |-> "cluster", k |-> num_speakers, ok |-> TRUE])
    /\ pc' = "done"
    /\ UNCHANGED <<dialogue_entries, num_speakers, arg_num_speakers, min_speakers,
                   max_speakers, wav, start_sample, segments, embeddings, est, err,
                   delivered>>
    /\ UNCHANGED fnVars

\* line 138 raises and the error is swallowed: the single segment of line 116
\* is returned instead
ClusterFailReturnsFallback ==
    /\ pc = "cluster"
    /\ Record([op |-> "cluster", k |-> num_speakers, ok |-> FALSE])
    /\ err' = "ClusterError"
    /\ result' = <<SpeakerSegment(0, TimeOf(Len(wav)), "SPEAKER_00")>>
    /\ pc' = "done"
    /\ UNCHANGED <<dialogue_entries, num_speakers, arg_num_speakers, min_speakers,
                   max_speakers, wav, start_sample, segments, embeddings, est,
                   labels, speaker_segments, delivered>>
    /\ UNCHANGED fnVars

\* line 138 raises
ClusterFail ==
    /\ pc = "cluster"
    /\ Record([op |-> "cluster", k |-> num_speakers, ok |-> FALSE])
    /\ err' = "ClusterError"
    /\ pc' = "raised"
    /\ UNCHANGED <<dialogue_entries, num_speakers, arg_num_speakers, min_speakers,
                   max_speakers, wav, start_sample, segments, embeddings, est,
                   labels, speaker_segments, result, delivered>>
    /\ UNCHANGED fnVars

---------------------------------------------------------------------------
(* The caller of the two entry points *)

\* perform_diarization returned: the transcript is aligned and handed on
CallerAlign ==
    /\ pc = "done"
    /\ delivered' = assign_speakers_to_transcript(dialogue_entries, result)
    /\ pc' = "delivered"
    /\ UNCHANGED <<dialogue_entries, num_speakers, arg_num_speakers, min_speakers,
                   max_speakers, wav, start_sample, segments, embeddings, est,
                   labels, speaker_segments, result, err, calls>>
    /\ UNCHANGED fnVars

\* perform_diarization raised: the transcript is handed on as it was
CallerFallback ==
    /\ pc = "raised"
    /\ delivered' = dialogue_entries
    /\ pc' = "delivered"
    /\ UNCHANGED <<dialogue_entries, num_speakers, arg_num_speakers, min_speakers,
                   max_speakers, wav, start_sample, segments, embeddings, est,
                   labels, speaker_segments, result, err, calls>>
    /\ UNCHANGED fnVars

---------------------------------------------------------------------------
(* The job: transcription, diarization, alignment *)

FnIdle ==
    /\ t_pc = "off"
    /\ t_segments = <<>>
    /\ t_gap = 0
    /\ t_transcript = <<>>
    /\ t_out = <<>>
    /\ t_out2 = <<>>

PipeIdle(at) ==
    /\ pc = at
    /\ dialogue_entries = <<>>
    /\ num_speakers = None
    /\ arg_num_speakers = None
    /\ min_speakers = 0
    /\ max_speakers = 0
    /\ wav = <<>>
    /\ start_sample = 0
    /\ segments = <<>>
    /\ embeddings = <<>>
    /\ est = NoEst
    /\ labels = <<>>
    /\ speaker_segments = <<>>
    /\ result = <<>>
    /\ err = "none"
    /\ calls = <<>>
    /\ delivered = <<>>

Init == PipeIdle("transcribe") /\ FnIdle

Next ==
    \/ WhisperStart
    \/ CallerDiarize
    \/ ImportOk
    \/ ImportFail
    \/ LoadAudio
    \/ WindowSilent
    \/ WindowEmbed
    \/ WindowEmbedFail
    \/ TooFewFrames
    \/ EstimateStart
    \/ UseDeclared
    \/ EstTrialOk
    \/ EstTrialFail
    \/ EstReturn
    \/ ClusterOk
    \/ ClusterFail
    \/ CallerAlign
    \/ CallerFallback

Spec == Init /\ [][Next]_vars

---------------------------------------------------------------------------
(* The two pure functions applied to inputs drawn from bounded sets *)

Quarter == TicksPerSec \div 4
InputTimes == {t * Quarter : t \in 0..MaxT}
InputLabels == {SpeakerLabel(0), SpeakerLabel(1)}
InputGaps == {0, Quarter, DefaultGapTolerance}

\* segments with start <= end at the input times
InputSegments ==
    {SpeakerSegment(s, e, l) : s \in InputTimes, e \in InputTimes, l \in InputLabels}

ProperSegments == {g \in InputSegments : g.start <= g.end}

SeqsUpTo(S, n) == UNION {[1..k -> S] : k \in 0..n}

\* the pairs of section 8 of the specification: 0-10 s and 10.3-20 s, and the
\* same pair 0.5 s and 0.6 s apart
ExamplePair(gap) ==
    << SpeakerSegment(0, 10 * TicksPerSec, "A"),
       SpeakerSegment(10 * TicksPerSec + gap, 20 * TicksPerSec, "A") >>

ExampleLists == {ExamplePair(gap) : gap \in {6, 10, 12}}

\* transcript segments: as the adapter writes them, without a speaker, and
\* without times but with another field
UttSpoken(s, e) ==
    [speaker |-> "Speaker 1", text |-> <<"a">>, start_time |-> s, end_time |-> e]
UttPlain(s, e) == [text |-> <<"b">>, start_time |-> s, end_time |-> e]
UttBare == [text |-> <<"c">>, confidence |-> 7]

InputIntervals == {p \in InputTimes \X InputTimes : p[1] <= p[2]}

InputUtterances ==
    {UttSpoken(p[1], p[2]) : p \in InputIntervals}
        \cup {UttPlain(p[1], p[2]) : p \in InputIntervals}
        \cup {UttBare}

UtterancePool == {UttSpoken(0, Quarter), UttPlain(Quarter, 2 * Quarter), UttBare}

InputTranscripts ==
    {<<u>> : u \in InputUtterances} \cup SeqsUpTo(UtterancePool, MaxUtts)

InitMerge ==
    /\ PipeIdle("off")
    /\ t_pc = "merge"
    /\ t_segments \in SeqsUpTo(ProperSegments, MaxSegs) \cup ExampleLists
    /\ t_gap \in InputGaps
    /\ t_transcript = <<>>
    /\ t_out = <<>>
    /\ t_out2 = <<>>

\* _merge_consecutive_segments(t_segments, t_gap)
MergeOnce ==
    /\ t_pc = "merge"
    /\ t_out' = merge_consecutive_segments(t_segments, t_gap)
    /\ t_pc' = "merged"
    /\ UNCHANGED <<t_segments, t_gap, t_transcript, t_out2>>
    /\ UNCHANGED pipeVars

\* _merge_consecutive_segments applied to its own output
MergeAgain ==
    /\ t_pc = "merged"
    /\ t_out2' = merge_consecutive_segments(t_out, t_gap)
    /\ t_pc' = "remerged"
    /\ UNCHANGED <<t_segments, t_gap, t_transcript, t_out>>
    /\ UNCHANGED pipeVars

NextMerge == MergeOnce \/ MergeAgain

SpecMerge == InitMerge /\ [][NextMerge]_vars

InitAlign ==
    /\ PipeIdle("off")
    /\ t_pc = "align"
    /\ t_segments \in SeqsUpTo(ProperSegments, MaxAlignSegs)
    /\ t_gap = 0
    /\ t_transcript \in InputTranscripts
    /\ t_out = <<>>
    /\ t_out2 = <<>>

\* assign_speakers_to_transcript(t_transcript, t_segments)
AlignOnce ==
    /\ t_pc = "align"
    /\ t_out' = assign_speakers_to_transcript(t_transcript, t_segments)
    /\ t_pc' = "aligned"
    /\ UNCHANGED <<t_segments, t_gap, t_transcript, t_out2>>
    /\ UNCHANGED pipeVars

NextAlign == AlignOnce

SpecAlign == InitAlign /\ [][NextAlign]_vars

\* runs of perform_diarization together with _merge_consecutive_segments on
\* bounded inputs
InitRunAndMerge == Init \/ InitMerge

NextRunAndMerge == Next \/ NextMerge

SpecRunAndMerge == InitRunAndMerge /\ [][NextRunAndMerge]_vars

---------------------------------------------------------------------------
(* Properties *)

Returned == pc \in {"done", "delivered"} /\ err = "none"
CallOps == {calls[i].op : i \in 1..Len(calls)}
SpeakersOf(segs) == {segs[i].speaker : i \in 1..Len(segs)}

\* C1: a run of perform_diarization that keeps fewer than 2 frames returns
\* exactly one segment, from 0 to the duration len(wav)/sr, labelled SPEAKER_00,
\* and invokes neither the estimator nor the clustering, whatever the arguments.
C1_FewFramesSingleSegment ==
    (Returned /\ Len(segments) < 2) =>
        /\ Len(result) = 1
        /\ result[1].start = 0
        /\ result[1].end * sr = Len(wav) * TicksPerSec
        /\ result[1].speaker = "SPEAKER_00"
        /\ CallOps \cap {"estimate", "trial", "cluster"} = {}

\* C1 witness: one frame kept out of a waveform longer than a window, with an
\* explicit count of 2: the single segment was returned
C1_Witness ==
    /\ pc = "done"
    /\ Len(segments) = 1
    /\ arg_num_speakers = 2
    /\ Len(result) = 1

\* C4: with num_speakers = N supplied, the estimator is never invoked, every
\* clustering call has cluster count N, and the returned list has at most N
\* distinct speaker labels.
C4_DeclaredCountBoundsLabels ==
    (arg_num_speakers # None) =>
        /\ CallOps \cap {"estimate", "trial"} = {}
        /\ \A i \in 1..Len(calls) :
               calls[i].op = "cluster" => calls[i].k = arg_num_speakers
        /\ Returned => Cardinality(SpeakersOf(result)) <= arg_num_speakers

\* C4 witness: a run with N = 2 over at least 3 frames returned both labels
C4_Witness ==
    /\ pc = "done"
    /\ arg_num_speakers = 2
    /\ Len(segments) >= 3
    /\ "cluster" \in CallOps
    /\ Cardinality(SpeakersOf(result)) = 2

---------------------------------------------------------------------------
(* Properties of assign_speakers_to_transcript *)

SegStart(u) == Get(u, "start_time", 0)
SegEnd(u) == Get(u, "end_time", 0)

\* the segments of ssegs that contain [start, end]
Containing(start, end, ssegs) ==
    {j \in 1..Len(ssegs) : ssegs[j].start <= start /\ end <= ssegs[j].end}

\* C2: N transcript segments give N records in the same order; record i has a
\* speaker key and otherwise exactly the keys and values of input i.
C2_AlignKeepsRecords ==
    (t_pc = "aligned") =>
        /\ Len(t_out) = Len(t_transcript)
        /\ \A i \in 1..Len(t_transcript) :
             /\ DOMAIN t_out[i] = DOMAIN t_transcript[i] \cup {"speaker"}
             /\ \A k \in DOMAIN t_transcript[i] \ {"speaker"} :
                    t_out[i][k] = t_transcript[i][k]

\* C2 witness: two different records, the second with a field of its own and
\* without times, aligned against a non-empty segment list
C2_Witness ==
    /\ t_pc = "aligned"
    /\ Len(t_transcript) = 2
    /\ t_transcript[1] # t_transcript[2]
    /\ "confidence" \in DOMAIN t_out[2]
    /\ t_segments # <<>>

\* C3 as stated: a transcript segment with start_time <= end_time that lies
\* inside exactly one speaker segment S is given S.speaker.
C3_InsideOneSegment_Original ==
    (t_pc = "aligned") =>
        \A i \in 1..Len(t_transcript) :
            LET s == SegStart(t_transcript[i])
                e == SegEnd(t_transcript[i])
                inside == Containing(s, e, t_segments)
            IN  (s <= e /\ Cardinality(inside) = 1) =>
                    \A j \in inside : t_out[i].speaker = t_segments[j].speaker

\* C3 amended: a transcript segment with start_time < end_time that lies inside
\* exactly one speaker segment S is given S.speaker, whatever the other
\* segments are.
C3_InsideOneSegment ==
    (t_pc = "aligned") =>
        \A i \in 1..Len(t_transcript) :
            LET s == SegStart(t_transcript[i])
                e == SegEnd(t_transcript[i])
                inside == Containing(s, e, t_segments)
            IN  (s < e /\ Cardinality(inside) = 1) =>
                    \A j \in inside : t_out[i].speaker = t_segments[j].speaker

\* C3 witness: the containing segment comes second, after a segment that
\* overlaps the transcript segment without containing it, and is labelled 01
C3_Witness ==
    /\ t_pc = "aligned"
    /\ Len(t_transcript) = 1
    /\ Len(t_segments) = 2
    /\ SegStart(t_transcript[1]) < SegEnd(t_transcript[1])
    /\ Containing(SegStart(t_transcript[1]), SegEnd(t_transcript[1]), t_segments) = {2}
    /\ Overlap(SegStart(t_transcript[1]), SegEnd(t_transcript[1]), t_segments[1]) > 0
    /\ t_segments[1].speaker = SpeakerLabel(0)
    /\ t_segments[2].speaker = SpeakerLabel(1)
    /\ t_out[1].speaker = SpeakerLabel(1)

---------------------------------------------------------------------------
(* Properties of _merge_consecutive_segments *)

\* C5: merging the output of a merge again, with the same tolerance, gives the
\* same sequence, element for element.
C5_MergeIdempotent ==
    (t_pc = "remerged") => t_out2 = t_out

\* C5 witness: three overlapping input segments of which the merge joined two
C5_Witness ==
    /\ t_pc = "remerged"
    /\ Len(t_segments) = 3
    /\ Len(t_out) = 2
    /\ t_segments[2].start < t_segments[1].end
    /\ t_segments[3].start < t_segments[2].end

\* input segment i is absorbed: same speaker as the accumulator, whose end is
\* the end of input i - 1, and a gap of at most the tolerance
Absorbed(segs, i, tol) ==
    /\ i >= 2
    /\ segs[i].speaker = segs[i - 1].speaker
    /\ segs[i].start - segs[i - 1].end <= tol

\* the inputs that open an accumulator
Openers(segs, tol) == {i \in 1..Len(segs) : ~Absorbed(segs, i, tol)}

\* the j-th opener and the last input its accumulator absorbs
Opener(segs, tol, j) ==
    CHOOSE i \in Openers(segs, tol) :
        Cardinality({x \in Openers(segs, tol) : x <= i}) = j
Closer(segs, tol, j) ==
    IF j = Cardinality(Openers(segs, tol))
    THEN Len(segs)
    ELSE Opener(segs, tol, j + 1) - 1

\* C7: a segment is absorbed into the accumulator exactly when it has the
\* accumulator's speaker and starts at most gap_tolerance after the
\* accumulator's end; the accumulator keeps its start and speaker and takes the
\* absorbed segment's end.  With tolerance 0.5 s the pair 0-10, 10.3-20 gives
\* 0-20, a gap of exactly 0.5 s merges, a gap of 0.6 s leaves the pair as it was.
C7_AbsorbRule ==
    (t_pc = "merged") =>
        /\ Len(t_out) = Cardinality(Openers(t_segments, t_gap))
        /\ \A j \in 1..Len(t_out) :
             /\ t_out[j].start = t_segments[Opener(t_segments, t_gap, j)].start
             /\ t_out[j].speaker = t_segments[Opener(t_segments, t_gap, j)].speaker
             /\ t_out[j].end = t_segments[Closer(t_segments, t_gap, j)].end
        /\ (t_gap = DefaultGapTolerance /\ t_segments = ExamplePair(6)) =>
               t_out = <<SpeakerSegment(0, 20 * TicksPerSec, "A")>>
        /\ (t_gap = DefaultGapTolerance /\ t_segments = ExamplePair(10)) =>
               t_out = <<SpeakerSegment(0, 20 * TicksPerSec, "A")>>
        /\ (t_gap = DefaultGapTolerance /\ t_segments = ExamplePair(12)) =>
               t_out = t_segments

\* C7 witness: the pair exactly 0.5 s apart was merged under tolerance 0.5 s
C7_Witness ==
    /\ t_pc = "merged"
    /\ t_gap = DefaultGapTolerance
    /\ t_segments = ExamplePair(10)
    /\ Len(t_out) = 1

---------------------------------------------------------------------------
(* Properties of the labels and of failures *)

\* "Speaker N", N >= 1
HumanLabels == {"Speaker " \o ToString(n) : n \in 1..100}

\* "SPEAKER_nn"
RawLabels == {SpeakerLabel(n) : n \in 0..99}

\* C8 as stated: every record returned by the alignment carries a label
\* "Speaker N" (1-based) and none carries a raw SPEAKER_nn label.
C8_HumanLabels_Original ==
    (t_pc = "aligned") =>
        \A i \in 1..Len(t_out) :
            t_out[i].speaker \in HumanLabels /\ t_out[i].speaker \notin RawLabels

\* C8 amended: every record returned by assign_speakers_to_transcript carries a
\* raw label, "SPEAKER_00" or the label of one of the given speaker segments
\* unchanged; no record carries "Speaker N", and the "Speaker 1" written by
\* WhisperLocalAdapter.start is overwritten.
C8_RawLabels ==
    (t_pc = "aligned") =>
        \A i \in 1..Len(t_out) :
            /\ t_out[i].speaker \in {"SPEAKER_00"} \cup SpeakersOf(t_segments)
            /\ t_out[i].speaker \in RawLabels
            /\ t_out[i].speaker \notin HumanLabels

\* C8 witness: a record that the adapter labelled "Speaker 1" came back labelled
\* SPEAKER_01
C8_Witness ==
    /\ t_pc = "aligned"
    /\ Len(t_transcript) = 1
    /\ "speaker" \in DOMAIN t_transcript[1]
    /\ t_transcript[1].speaker = "Speaker 1"
    /\ t_out[1].speaker = "SPEAKER_01"

---------------------------------------------------------------------------
(* Properties of _estimate_num_speakers *)

\* the trials made so far, and those that were scored
Trials == {i \in 1..Len(calls) : calls[i].op = "trial"}
Scored == {i \in Trials : calls[i].ok}
TopScore == MaxOf({calls[i].score : i \in Scored})

\* the estimator was entered and has returned
EstimatorReturned == "estimate" \in CallOps /\ pc # "estimate"

\* C6: once a candidate has been scored, the estimate is the candidate with the
\* highest score among the scored ones, the lowest such candidate on a tie; it
\* is what the estimator returns.  With 2 and 3 both scored, 2 higher, and no
\* other candidate, it returns 2.
C6_LowestBestCandidate ==
    ("estimate" \in CallOps /\ Scored # {}) =>
        /\ \E i \in Scored :
             /\ calls[i].k = est.best_n
             /\ calls[i].score = TopScore
             /\ \A j \in Scored : calls[j].score = TopScore => calls[i].k <= calls[j].k
        /\ EstimatorReturned =>
             /\ num_speakers = est.best_n
             /\ \A i \in Scored, j \in Scored :
                    (/\ min_speakers = 2
                     /\ calls[i].k = 2
                     /\ calls[j].k = 3
                     /\ calls[i].score > calls[j].score) => est.best_n = 2

\* C6 witness: candidates 2 and 3 were scored alike and the estimator returned 2
C6_Witness ==
    /\ pc = "cluster"
    /\ "estimate" \in CallOps
    /\ num_speakers = 2
    /\ \E i \in Scored, j \in Scored :
         /\ calls[i].k = 2
         /\ calls[j].k = 3
         /\ calls[i].score = calls[j].score

\* the candidates tried so far, in the order of the trials
TrialCounts == [n \in 1..Cardinality(Trials) |->
                  calls[CHOOSE i \in Trials :
                            Cardinality({x \in Trials : x <= i}) = n].k]

\* C10: a trial that raises is skipped and nothing else: the error does not
\* leave the estimator, the later candidates are still tried (the trials are
\* min_speakers .. min(max_speakers, n - 1) in ascending order whatever failed),
\* the best score is that of the scored trials, and with no scored trial the
\* estimator returns min_speakers.
C10_FailedTrialSkipped ==
    ("estimate" \in CallOps) =>
        /\ (calls[Len(calls)].op = "trial") => (pc \in {"estimate", "cluster"} /\ err = "none")
        /\ LET tried == TrialCounts
           IN  /\ \A n \in 1..Len(tried) : tried[n] = min_speakers + n - 1
               /\ EstimatorReturned =>
                      Len(tried) =
                          Max(0, Min(max_speakers, Len(embeddings) - 1) - min_speakers + 1)
        /\ Scored # {} => est.best_score = TopScore
        /\ Scored = {} => est.best_n = min_speakers
        /\ (pc = "cluster" /\ Scored = {}) => num_speakers = min_speakers

\* C10 witness: a trial failed, a later candidate was scored and returned
C10_Witness ==
    /\ pc = "cluster"
    /\ "estimate" \in CallOps
    /\ \E i \in Trials, j \in Scored :
         /\ ~calls[i].ok
         /\ i < j
         /\ num_speakers = calls[j].k

---------------------------------------------------------------------------
(* Properties of failures inside perform_diarization *)

EmbedCalls == {i \in 1..Len(calls) : calls[i].op = "embed"}

FailedCalls == {i \in 1..Len(calls) : calls[i].op \in {"embed", "cluster"} /\ ~calls[i].ok}

\* C11: a failed embedding call or a failed final clustering ends the run with
\* that error: no segment list is returned, no call follows the failed one,
\* every window is embedded at most once and the final clustering is attempted
\* at most once.
C11_FailureIsFatal ==
    /\ \A i \in FailedCalls :
         /\ i = Len(calls)
         /\ pc \in {"raised", "delivered"}
         /\ err = IF calls[i].op = "embed" THEN "EmbedError" ELSE "ClusterError"
         /\ result = <<>>
    /\ (err \in {"EmbedError", "ClusterError"}) => FailedCalls # {}
    /\ Cardinality({calls[i].start : i \in EmbedCalls}) = Cardinality(EmbedCalls)
    /\ Cardinality({i \in 1..Len(calls) : calls[i].op = "cluster"}) <= 1

\* C11 witness: the second embedding call failed after the first had succeeded
C11_Witness ==
    /\ pc = "raised"
    /\ err = "EmbedError"
    /\ Len(embeddings) = 1
    /\ result = <<>>

---------------------------------------------------------------------------
(* Properties of the merged list and of the assignment rule *)

SortedByStart(segs) ==
    \A i \in 1..(Len(segs) - 1) : segs[i].start <= segs[i + 1].start

NoMergeableNeighbours(segs, gap_tolerance) ==
    \A i \in 1..(Len(segs) - 1) :
        ~(/\ segs[i].speaker = segs[i + 1].speaker
          /\ segs[i + 1].start - segs[i].end <= gap_tolerance)

\* C13: for every input sorted ascending by start, the output of
\* _merge_consecutive_segments is sorted ascending by start and has no two
\* consecutive segments of the same speaker whose gap is within the tolerance;
\* the same holds for the list every run of perform_diarization that reaches
\* the merge returns.
C13_MergedListShape ==
    /\ (t_pc \in {"merged", "remerged"} /\ SortedByStart(t_segments)) =>
          /\ SortedByStart(t_out)
          /\ NoMergeableNeighbours(t_out, t_gap)
    /\ (speaker_segments # <<>>) =>
          /\ SortedByStart(speaker_segments)
          /\ result = merge_consecutive_segments(speaker_segments, DefaultGapTolerance)
          /\ SortedByStart(result)
          /\ NoMergeableNeighbours(result, DefaultGapTolerance)

\* C13 witness: a sorted input of three segments of one speaker of which the
\* last stays separate, at a gap above the tolerance
C13_Witness ==
    /\ t_pc = "merged"
    /\ Len(t_segments) = 3
    /\ SortedByStart(t_segments)
    /\ Len(t_out) = 2
    /\ t_out[1].speaker = t_out[2].speaker
    /\ t_out[2].start - t_out[1].end > t_gap

UttStart(u) == IF "start_time" \in DOMAIN u THEN u.start_time ELSE 0
UttEnd(u) == IF "end_time" \in DOMAIN u THEN u.end_time ELSE 0

\* min(utt.end, seg.end) - max(utt.start, seg.start)
OverlapOf(u, g) ==
    (IF UttEnd(u) <= g.end THEN UttEnd(u) ELSE g.end)
        - (IF UttStart(u) >= g.start THEN UttStart(u) ELSE g.start)

MaxOverlap(u, segs) ==
    CHOOSE m \in {OverlapOf(u, segs[j]) : j \in 1..Len(segs)} :
        \A j \in 1..Len(segs) : OverlapOf(u, segs[j]) <= m

FirstAtMax(u, segs) ==
    CHOOSE j \in 1..Len(segs) :
        /\ OverlapOf(u, segs[j]) = MaxOverlap(u, segs)
        /\ \A k \in 1..(j - 1) : OverlapOf(u, segs[k]) # MaxOverlap(u, segs)

\* C14: each utterance gets the label of the first segment, in list order,
\* whose overlap with it equals the maximum overlap, provided that maximum is
\* strictly positive; otherwise (empty list, or no segment overlapping by more
\* than zero) it gets SPEAKER_00; in both cases an existing speaker value is
\* replaced.
C14_FirstMaxOverlap ==
    (t_pc = "aligned") =>
        /\ Len(t_out) = Len(t_transcript)
        /\ \A i \in 1..Len(t_transcript) :
             t_out[i].speaker =
                 IF t_segments # <<>> /\ MaxOverlap(t_transcript[i], t_segments) > 0
                 THEN t_segments[FirstAtMax(t_transcript[i], t_segments)].speaker
                 ELSE "SPEAKER_00"

\* C14 witness: two segments with different labels overlap an utterance that
\* carried a speaker equally, and the label of the first one is assigned
C14_Witness ==
    /\ t_pc = "aligned"
    /\ Len(t_segments) = 2
    /\ t_segments[1].speaker = "SPEAKER_01"
    /\ t_segments[2].speaker = "SPEAKER_00"
    /\ \E i \in 1..Len(t_transcript) :
         /\ "speaker" \in DOMAIN t_transcript[i]
         /\ OverlapOf(t_transcript[i], t_segments[1]) > 0
         /\ OverlapOf(t_transcript[i], t_segments[1])
                = OverlapOf(t_transcript[i], t_segments[2])
         /\ t_out[i].speaker = "SPEAKER_01"

---------------------------------------------------------------------------
(* Properties of the order of the stages *)

ExamineOps == {"window", "embed"}
ClusteringOps == {"estimate", "trial", "cluster"}

\* the window starts range(0, len(wav) - window_samples, hop_samples) yields
WindowStarts(w) ==
    {s \in 0..Len(w) : s % hop_samples = 0 /\ s < Len(w) - window_samples}

LoudStarts(w) ==
    {s \in WindowStarts(w) :
        \E i \in (s + 1)..(s + window_samples) : Abs(w[i]) >= SilenceThreshold}

ExaminedBefore(i) == {calls[j].start : j \in {k \in 1..(i - 1) : calls[k].op \in ExamineOps}}

EmbeddedBefore(i) ==
    {calls[j].start : j \in {k \in 1..(i - 1) : calls[k].op = "embed" /\ calls[k].ok}}

\* C15 as stated: no embedding call is made before the last window has been
\* examined, so no window is examined after an embedding call.
C15_StagesInSequence_Original ==
    \A i \in 1..Len(calls), j \in 1..Len(calls) :
        (i < j /\ calls[i].op = "embed") => calls[j].op \notin ExamineOps

\* C15: the windows are examined in ascending order and a retained window is
\* embedded as soon as it has been examined, before the next window is
\* examined; no clustering call, trial or final, is made before every window
\* has been examined and every retained frame embedded, and none is followed
\* by a window or an embedding; the final clustering is the last call, and
\* the merged list exists only after it has labelled every frame.  Stated of
\* the latest call of the history, in every reachable state.
C15_StagesInSequence ==
    /\ (calls # <<>>) =>
         LET n == Len(calls)
             last == calls[n]
         IN  /\ (last.op \in ExamineOps) =>
                   /\ ExaminedBefore(n) = {s \in WindowStarts(wav) : s < last.start}
                   /\ CallOps \cap ClusteringOps = {}
             /\ (last.op \in ClusteringOps) =>
                   LET loud == LoudStarts(wav)
                   IN  /\ Len(embeddings) = Cardinality(loud)
                       /\ EmbeddedBefore(n) = loud
                       /\ ExaminedBefore(n) = WindowStarts(wav)
             /\ \A i \in 1..(n - 1) : calls[i].op # "cluster"
    /\ (speaker_segments # <<>> \/ Len(result) > 1) =>
          /\ calls[Len(calls)] = [op |-> "cluster", k |-> num_speakers, ok |-> TRUE]
          /\ Len(labels) = Len(segments)
          /\ Len(speaker_segments) = Len(segments)

\* C15 witness: a run that embedded a window, examined further windows
\* afterwards, tried a candidate count and returned a merged list
C15_Witness ==
    /\ Returned
    /\ result # <<>>
    /\ \E i \in 1..Len(calls), j \in 1..Len(calls) :
         /\ i < j
         /\ calls[i].op = "embed"
         /\ calls[j].op = "window"
    /\ "trial" \in CallOps
    /\ "cluster" \in CallOps

---------------------------------------------------------------------------
(* Properties of the window loop *)

\* the loop of lines 93-112 has ended without an error
WindowingDone == pc \in {"estimate", "cluster", "done"}

\* every multiple of the hop at which a whole window still fits
FittingStarts(w) ==
    {s \in 0..Len(w) : s % hop_samples = 0 /\ s <= Len(w) - window_samples}

LoudAmong(starts, w) ==
    {s \in starts :
        \E i \in (s + 1)..(s + window_samples) : Abs(w[i]) >= SilenceThreshold}

\* the frames of the given starts in ascending order, in seconds of the
\* waveform's timeline
FramesAre(frames, starts) ==
    /\ Len(frames) = Cardinality(starts)
    /\ \A i \in 1..Len(frames) :
         \E s \in starts :
            /\ Cardinality({x \in starts : x <= s}) = i
            /\ frames[i].start * sr = s * TicksPerSec
            /\ frames[i].end * sr = (s + window_samples) * TicksPerSec

ExaminedStarts == {calls[i].start : i \in {k \in 1..Len(calls) : calls[k].op \in ExamineOps}}

\* C16: the window loop examines the window at every multiple s of the hop
\* with s <= len - window_samples, the position s = len - window_samples
\* included, retains exactly those whose peak absolute amplitude is at least
\* the threshold, and yields them in ascending order with start s / sr and
\* end (s + window_samples) / sr, none reaching past the end of the waveform.
C16_WindowerRetains ==
    WindowingDone =>
        /\ ExaminedStarts = FittingStarts(wav)
        /\ FramesAre(segments, LoudAmong(FittingStarts(wav), wav))
        /\ \A i \in 1..Len(segments) : segments[i].end * sr <= Len(wav) * TicksPerSec

\* what lines 93-112 do: the same with s < len - window_samples
WindowerAsCoded ==
    WindowingDone =>
        /\ ExaminedStarts = WindowStarts(wav)
        /\ FramesAre(segments, LoudAmong(WindowStarts(wav), wav))
        /\ \A i \in 1..Len(segments) : segments[i].end * sr < Len(wav) * TicksPerSec

\* a waveform of exactly one window, loud, of which no window was examined
LastWindowDropped ==
    /\ WindowingDone
    /\ Len(wav) = window_samples
    /\ \E i \in 1..Len(wav) : Abs(wav[i]) >= SilenceThreshold
    /\ segments = <<>>
    /\ ExaminedStarts = {}

---------------------------------------------------------------------------
(* Properties of the clustering calls *)

FinalClusterings == {i \in 1..Len(calls) : calls[i].op = "cluster"}

\* the number of integers of [min_speakers, min(max_speakers, n - 1)]
CandidateCount(lo, hi, n) ==
    LET top == IF hi <= n - 1 THEN hi ELSE n - 1
    IN  IF top < lo THEN 0 ELSE top - lo + 1

\* C17: with two or more retained frames the final clustering is invoked
\* exactly once, with the count that was supplied or estimated; it yields one
\* label per frame, and the list handed to the merge has one segment per
\* frame, in frame order, with the frame's start and end and the speaker
\* "SPEAKER_" followed by the label in two digits.  A run with a supplied
\* count makes one clustering call in all, a run through the estimator the
\* number of candidates of its range plus one.
C17_OneFinalClustering ==
    /\ ("cluster" \in CallOps) =>
          /\ Len(segments) >= 2
          /\ Cardinality(FinalClusterings) = 1
          /\ \A i \in FinalClusterings :
                calls[i].k = IF arg_num_speakers # None
                             THEN arg_num_speakers
                             ELSE est.best_n
          /\ Cardinality(Trials) + Cardinality(FinalClusterings) =
                IF arg_num_speakers # None
                THEN 1
                ELSE CandidateCount(min_speakers, max_speakers, Len(segments)) + 1
    /\ (speaker_segments # <<>>) =>
          /\ "cluster" \in CallOps
          /\ Len(labels) = Len(segments)
          /\ Len(speaker_segments) = Len(segments)
          /\ \A i \in 1..Len(segments) :
                /\ labels[i] \in 0..9
                /\ speaker_segments[i] =
                      [start |-> segments[i].start,
                       end |-> segments[i].end,
                       speaker |-> "SPEAKER_0" \o ToString(labels[i])]
    /\ (Returned /\ Len(segments) >= 2) => speaker_segments # <<>>

\* C17 witness: an estimated run over three frames that tried two candidates,
\* clustered once more and labelled the frames with two different labels
C17_Witness ==
    /\ Returned
    /\ arg_num_speakers = None
    /\ Len(segments) = 3
    /\ Cardinality(Trials) = 2
    /\ Cardinality(FinalClusterings) = 1
    /\ Len(speaker_segments) = 3
    /\ speaker_segments[1].speaker = "SPEAKER_00"
    /\ speaker_segments[2].speaker = "SPEAKER_01"

\* the integers of [min_speakers, min(max_speakers, n - 1)]
SearchRange(lo, hi, n) == {k \in lo..hi : k <= n - 1}

\* C18: on the path that estimates the count, with n >= 2 frames, the
\* candidates tried are exactly the integers of
\* [min_speakers, min(max_speakers, n - 1)], in ascending order; when that range
\* is not empty the count given to the final clustering lies in it; when it is
\* empty no candidate is tried and the count is min_speakers, and only then can
\* the count reach or exceed n.
C18_SearchRange ==
    ("estimate" \in CallOps) =>
        LET n == Len(embeddings)
            range == SearchRange(min_speakers, max_speakers, n)
        IN  /\ n >= 2
            /\ arg_num_speakers = None
            /\ {calls[i].k : i \in Trials} \subseteq range
            /\ \A i \in Trials, j \in Trials : i < j => calls[i].k < calls[j].k
            /\ EstimatorReturned =>
                  /\ {calls[i].k : i \in Trials} = range
                  /\ num_speakers = est.best_n
                  /\ \A i \in FinalClusterings : calls[i].k = num_speakers
                  /\ (range # {}) => num_speakers \in range
                  /\ (range = {}) => (Trials = {} /\ num_speakers = min_speakers)
                  /\ (num_speakers >= n) => range = {}

\* C18 witness: an empty range, no trial, and a final clustering asked for as
\* many clusters as there are frames or more
C18_Witness ==
    /\ "estimate" \in CallOps
    /\ SearchRange(min_speakers, max_speakers, Len(embeddings)) = {}
    /\ Trials = {}
    /\ \E i \in FinalClusterings : calls[i].k >= Len(embeddings)

---------------------------------------------------------------------------
(* Properties of the default window, hop and tolerance together *)

\* the silent windows examined after the frame that starts at time a and
\* before the frame that starts at time b
SilentBetween(a, b) ==
    {j \in 1..Len(calls) :
        /\ calls[j].op = "window"
        /\ calls[j].start * TicksPerSec > a * sr
        /\ calls[j].start * TicksPerSec < b * sr}

\* both frames lie in one segment of the returned list
InOneSegment(f, g) ==
    \E r \in 1..Len(result) :
        /\ result[r].start <= f.start
        /\ g.end <= result[r].end
        /\ result[r].speaker = f.speaker

\* C19: with the 1.5 s window, the 0.75 s hop and the 0.5 s tolerance, two
\* frames that follow each other in the retained list and got the same label
\* are merged into one segment when no window or exactly one silent window was
\* discarded between them (gap -0.75 s or 0 s) and stay in separate segments
\* when two or more were (gap of at least 0.75 s); so two neighbouring
\* segments of one speaker in the result are separated by two or more silent
\* windows.
C19_SilenceSplits ==
    (speaker_segments # <<>>) =>
        /\ \A i \in 1..(Len(speaker_segments) - 1) :
             LET f == speaker_segments[i]
                 g == speaker_segments[i + 1]
                 discarded == Cardinality(SilentBetween(f.start, g.start))
                 gap == g.start - f.end
             IN  /\ (discarded = 0) => 4 * gap = -3 * TicksPerSec
                 /\ (discarded = 1) => gap = 0
                 /\ (discarded >= 2) => 4 * gap >= 3 * TicksPerSec
                 /\ (f.speaker = g.speaker) => (InOneSegment(f, g) <=> discarded <= 1)
        /\ \A r \in 1..(Len(result) - 1) :
             (result[r].speaker = result[r + 1].speaker) =>
                 /\ 4 * (result[r + 1].start - result[r].end) >= 3 * TicksPerSec
                 /\ Cardinality(SilentBetween(result[r].end - window_size,
                                              result[r + 1].start)) >= 2

\* C19 witness: two frames with the same label and two silent windows between
\* them, returned as two segments
C19_Witness ==
    /\ Returned
    /\ Len(speaker_segments) = 2
    /\ speaker_segments[1].speaker = speaker_segments[2].speaker
    /\ Cardinality(SilentBetween(speaker_segments[1].start,
                                 speaker_segments[2].start)) = 2
    /\ Len(result) = 2

\* two frames with the same label and one silent window between them,
\* returned as one segment
OneSilentWindowMerged ==
    /\ Returned
    /\ Len(speaker_segments) = 2
    /\ speaker_segments[1].speaker = speaker_segments[2].speaker
    /\ Cardinality(SilentBetween(speaker_segments[1].start,
                                 speaker_segments[2].start)) = 1
    /\ Len(result) = 1

====
